---- MODULE Spec2Model ----
(***************************************************************************)
(* Model of src/src/main.ts: the GitHub action that fetches a pull         *)
(* request's diff, asks a language model to review every chunk, validates  *)
(* the findings against the chunk's lines and submits the Comments.        *)
(*                                                                         *)
(* Three specifications:                                                   *)
(*   Spec               main() / analyzeCode(): the whole run              *)
(*   SpecCreateComment  createComment() applied to bounded inputs          *)
(*   SpecSummary        the prompt built by generatePRSummary()            *)
(*                                                                         *)
(* Encodings.  An optional JavaScript value (a property that may be        *)
(* undefined) is a sequence of length at most one: <<>> is undefined,      *)
(* <<v>> is v.  The lineNumber of a finding is text: a sequence of         *)
(* one-character strings.  A template string is the tuple or record of the *)
(* values interpolated into it; a text that may be empty is <<>> (the      *)
(* empty string) or that one value.                                        *)
(***************************************************************************)
EXTENDS Integers, Sequences, FiniteSets, TLC

VARIABLES
    pc,            \* position of the run (main / analyzeCode), or of a function spec
    parsedDiff,    \* main: filteredDiff, the File[] handed to analyzeCode
    comments,      \* analyzeCode: const comments = []
    origin,        \* history: for each element of comments, where it came from
    prSummary,     \* analyzeCode: const prSummary = await generatePRSummary(..)
    fi,            \* analyzeCode: index of the file the outer for-loop is at
    ci,            \* analyzeCode: index of the chunk the inner for-loop is at
    inflight,      \* requests awaiting the model's reply (at most one)
    calls,         \* history: the per-chunk review requests issued so far
    lastReply,     \* history: class of the reply the last step consumed, if any
    submitted,     \* history: the payloads handed to createReviewComment
    fnIn,          \* function specs: the arguments
    fnOut          \* function specs: the result

vars == <<pc, parsedDiff, comments, origin, prSummary, fi, ci, inflight,
          calls, lastReply, submitted, fnIn, fnOut>>

---------------------------------------------------------------------------
(* Bounds of the model *)

MaxFiles == 2
MaxChunks == 2
MaxChanges == 2
MaxTotalChanges == 2
MaxFindings == 2
MaxSummaryChunks == 2

(* Program constants *)

SampleLimit == 10
NoInt == -1

DevNull == "/dev/null"
NoPath == ""

None == <<>>
Some(x) == <<x>>

Range(s) == {s[i] : i \in DOMAIN s}

RECURSIVE SumSeq(_)
SumSeq(s) == IF s = <<>> THEN 0 ELSE Head(s) + SumSeq(Tail(s))

RECURSIVE FlatSeq(_)
FlatSeq(ss) == IF ss = <<>> THEN <<>> ELSE Head(ss) \o FlatSeq(Tail(ss))

SeqsUpTo(S, n) == UNION {[1..k -> S] : k \in 0..n}

---------------------------------------------------------------------------
(* parse-diff's records.  A chunk is numbered the way parse-diff numbers   *)
(* it: an added line takes the next new-file number (ln), a deleted line   *)
(* the next old-file number (ln), a context line both (ln1, ln2).          *)

ChangeTypes == {"add", "del", "normal"}

AddChange(n) == [type |-> "add", ln |-> Some(n), ln1 |-> None, ln2 |-> None,
                 content |-> "+x"]
DelChange(n) == [type |-> "del", ln |-> Some(n), ln1 |-> None, ln2 |-> None,
                 content |-> "-x"]
NormalChange(n1, n2) == [type |-> "normal", ln |-> None, ln1 |-> Some(n1),
                         ln2 |-> Some(n2), content |-> " x"]

RECURSIVE NumberChanges(_, _, _)
NumberChanges(types, lnDel, lnAdd) ==
    IF types = <<>> THEN <<>>
    ELSE CASE Head(types) = "add" ->
                <<AddChange(lnAdd)>> \o NumberChanges(Tail(types), lnDel, lnAdd + 1)
           [] Head(types) = "del" ->
                <<DelChange(lnDel)>> \o NumberChanges(Tail(types), lnDel + 1, lnAdd)
           [] OTHER ->
                <<NormalChange(lnDel, lnAdd)>>
                    \o NumberChanges(Tail(types), lnDel + 1, lnAdd + 1)

ParseChunk(types, oldStart, newStart) ==
    [content |-> <<"@@", oldStart, newStart>>,
     changes |-> NumberChanges(types, oldStart, newStart)]

---------------------------------------------------------------------------
(* The diffs a run is given.  A file is built from the kinds of its        *)
(* chunks' lines; consecutive chunks are one unchanged line apart.  A      *)
(* deleted file ("+++ /dev/null") holds deleted lines only.                *)

FileNames == <<"a.ts", "b.ts", "c.ts", "d.ts">>
FileKinds == {"modified", "deleted"}

TypesOf(kind) == IF kind = "deleted" THEN {"del"} ELSE ChangeTypes

Min(a, b) == IF a < b THEN a ELSE b

OldLen(types) == Cardinality({i \in DOMAIN types : types[i] # "add"})
NewLen(types) == Cardinality({i \in DOMAIN types : types[i] # "del"})

RECURSIVE ParseChunks(_, _, _)
ParseChunks(shapes, oldStart, newStart) ==
    IF shapes = <<>> THEN <<>>
    ELSE <<ParseChunk(Head(shapes), oldStart, newStart)>>
         \o ParseChunks(Tail(shapes), oldStart + OldLen(Head(shapes)) + 1,
                        newStart + NewLen(Head(shapes)) + 1)

ParseFile(kind, name, shapes) ==
    [to |-> IF kind = "deleted" THEN DevNull ELSE name,
     from |-> name,
     chunks |-> ParseChunks(shapes, 1, 1)]

ChunkShapes(kind, maxLen) == SeqsUpTo(TypesOf(kind), maxLen) \ {<<>>}

\* the sequences of at most n chunk shapes holding at most b changes in all
RECURSIVE ChunkShapeSeqs(_, _, _, _)
ChunkShapeSeqs(kind, n, maxLen, b) ==
    {<<>>} \cup
    (IF n = 0 THEN {}
     ELSE UNION {{<<s>> \o rest :
                    rest \in ChunkShapeSeqs(kind, n - 1, maxLen, b - Len(s))} :
                 s \in ChunkShapes(kind, Min(maxLen, b))})

\* the diffs of at most n further files, the next one named FileNames[i]
RECURSIVE DiffsFrom(_, _, _)
DiffsFrom(i, n, b) ==
    {<<>>} \cup
    (IF n = 0 THEN {}
     ELSE UNION {{<<ParseFile(kind, FileNames[i], ss)>> \o rest :
                    rest \in DiffsFrom(i + 1, n - 1, b - SumSeq([j \in DOMAIN ss |-> Len(ss[j])]))} :
                 <<kind, ss>> \in
                   UNION {{<<k, ss>> : ss \in ChunkShapeSeqs(k, MaxChunks, MaxChanges, b)} :
                          k \in FileKinds}})

Diffs == DiffsFrom(1, MaxFiles, MaxTotalChanges)

PRDetails == [owner |-> "o", repo |-> "r", pull_number |-> 1,
              title |-> "title", description |-> "description"]

---------------------------------------------------------------------------
(* Number(aiResponse.lineNumber): the text is trimmed; the empty text is   *)
(* 0, a run of digits its decimal value, digits with one "." the value     *)
(* when the fraction is zero.  NoInt stands for every result that is not   *)
(* an integer (NaN, 1.5): none of them is === to a line number.            *)

Digits == <<"0", "1", "2", "3", "4", "5", "6", "7", "8", "9">>
IsDigit(c) == c \in Range(Digits)
DigitValue(c) == (CHOOSE i \in DOMAIN Digits : Digits[i] = c) - 1

RECURSIVE Trim(_)
Trim(s) ==
    IF s = <<>> THEN s
    ELSE IF Head(s) = " " THEN Trim(Tail(s))
    ELSE IF s[Len(s)] = " " THEN Trim(SubSeq(s, 1, Len(s) - 1))
    ELSE s

RECURSIVE Decimal(_)
Decimal(s) ==
    IF s = <<>> THEN 0
    ELSE 10 * Decimal(SubSeq(s, 1, Len(s) - 1)) + DigitValue(s[Len(s)])

AllDigits(s) == \A i \in DOMAIN s : IsDigit(s[i])

Number(optText) ==
    IF optText = None THEN NoInt                     \* Number(undefined) is NaN
    ELSE LET t == Trim(optText[1])
             dots == {i \in DOMAIN t : t[i] = "."}
         IN  IF t = <<>> THEN 0
             ELSE IF AllDigits(t) THEN Decimal(t)
             ELSE IF Cardinality(dots) = 1 /\ Len(t) > 1
                  THEN LET d == CHOOSE i \in dots : TRUE
                           int == SubSeq(t, 1, d - 1)
                           frac == SubSeq(t, d + 1, Len(t))
                       IN  IF AllDigits(int) /\ AllDigits(frac)
                              /\ (\A i \in DOMAIN frac : frac[i] = "0")
                           THEN Decimal(int)
                           ELSE NoInt
             ELSE NoInt

\* String(n): the text of a line number
RECURSIVE DecStr(_)
DecStr(n) ==
    IF n < 10 THEN <<Digits[n + 1]>>
    ELSE DecStr(n \div 10) \o <<Digits[(n % 10) + 1]>>

---------------------------------------------------------------------------
(* createPrompt (lines 206-243): the values interpolated into the review   *)
(* prompt.  Each change is prefixed by c.ln when that is truthy and by     *)
(* c.ln2 otherwise.                                                        *)

Truthy(optNum) == optNum # None /\ optNum[1] # 0

PromptLineNo(c) == IF Truthy(c.ln) THEN c.ln ELSE c.ln2

createPrompt(file, chunk, prDetails) ==
    [kind |-> "review",
     path |-> file.to,
     title |-> prDetails.title,
     description |-> prDetails.description,
     content |-> chunk.content,
     lines |-> [i \in DOMAIN chunk.changes |->
                  <<PromptLineNo(chunk.changes[i]), chunk.changes[i].content>>]]

\* the line numbers the prompt shows for the chunk
PromptLineNumbers(prompt) ==
    {prompt.lines[i][1][1] : i \in {j \in DOMAIN prompt.lines : prompt.lines[j][1] # None}}

---------------------------------------------------------------------------
(* The model's replies.  A reply is a failed call, or a content: blank,    *)
(* text that is no JSON, or a JSON document.  A review document is null or *)
(* an object whose "reviews" is absent, null, a non-array value or an      *)
(* array of findings; a finding is null or an object whose fields may be   *)
(* missing.                                                                *)

Finding(ln, rc, sev) ==
    [t |-> "object", lineNumber |-> ln, reviewComment |-> rc, severity |-> sev]
NullFinding == [t |-> "null", lineNumber |-> None, reviewComment |-> None,
                severity |-> None]

Reviews(kind, items) == [t |-> kind, items |-> items]

ReviewDoc(kind, reviews) == [t |-> kind, reviews |-> reviews]
EmptyObject == ReviewDoc("object", Reviews("absent", <<>>))

CallFailed == [status |-> "error", text |-> "blank", value |-> EmptyObject]
Content(text, value) == [status |-> "ok", text |-> text, value |-> value]

\* JSON.parse(response.choices[0].message?.content?.trim() || "{}")
JSONparse(reply, emptyObject) ==
    CASE reply.text = "blank" -> [threw |-> FALSE, value |-> emptyObject]
      [] reply.text = "garbage" -> [threw |-> TRUE, value |-> emptyObject]
      [] OTHER -> [threw |-> FALSE, value |-> reply.value]

(* getAIResponse (lines 245-280): the "reviews" property of the parsed     *)
(* reply, or null when the call or the parse threw (reading a property of  *)
(* a parsed null throws too).                                              *)
getAIResponse(reply) ==
    IF reply.status = "error" THEN Reviews("null", <<>>)
    ELSE LET parsed == JSONparse(reply, EmptyObject)
         IN  IF parsed.threw \/ parsed.value.t = "null"
             THEN Reviews("null", <<>>)
             ELSE parsed.value.reviews

\* if (aiResponse): arrays and other objects are truthy
TruthyReviews(rv) == rv.t \in {"array", "object"}

---------------------------------------------------------------------------
(* getSeverityLabel (lines 329-344) *)

getSeverityLabel(severity) ==
    IF severity = None THEN ""
    ELSE CASE severity[1] = 1 -> "minor, can be ignored"
           [] severity[1] = 2 -> "low"
           [] severity[1] = 3 -> "medium"
           [] severity[1] = 4 -> "high"
           [] severity[1] = 5 -> "critical, must be fixed"
           [] OTHER -> ""

(* createComment (lines 282-327) *)

lineExistsAnyLn(chunk, lineNum) ==
    \E i \in DOMAIN chunk.changes :
        LET change == chunk.changes[i]
        IN  \/ change.ln = Some(lineNum)
            \/ change.ln2 = Some(lineNum)

lineExists(chunk, lineNum) ==
    \E i \in DOMAIN chunk.changes :
        LET change == chunk.changes[i]
        IN  IF change.type = "add" THEN change.ln = Some(lineNum)
            ELSE IF change.type = "normal" THEN change.ln2 = Some(lineNum)
            ELSE FALSE

\* the callback of flatMap: the Comments (none or one) of one finding
commentOf(file, chunk, aiResponse) ==
    IF file.to = NoPath THEN <<>>
    ELSE LET lineNum == Number(aiResponse.lineNumber)
         IN  IF ~lineExists(chunk, lineNum) THEN <<>>
             ELSE <<[body |-> <<[kind |-> "finding",
                                 severity |-> aiResponse.severity,
                                 label |-> getSeverityLabel(aiResponse.severity),
                                 text |-> aiResponse.reviewComment,
                                 changes |-> <<>>]>>,
                     path |-> file.to,
                     line |-> lineNum]>>

\* reading aiResponse.lineNumber of a null finding throws a TypeError
commentThrows(file, aiResponse) == file.to # NoPath /\ aiResponse.t = "null"

\* aiResponses.flatMap(..): throws when aiResponses is no array
createCommentThrows(file, aiResponses) ==
    \/ aiResponses.t # "array"
    \/ \E k \in DOMAIN aiResponses.items : commentThrows(file, aiResponses.items[k])

createComment(file, chunk, aiResponses) ==
    FlatSeq([k \in DOMAIN aiResponses.items |->
               commentOf(file, chunk, aiResponses.items[k])])

\* history: the indices of the findings createComment kept, in its order
keptFindings(file, chunk, aiResponses) ==
    SelectSeq([k \in DOMAIN aiResponses.items |-> k],
              LAMBDA k : commentOf(file, chunk, aiResponses.items[k]) # <<>>)

---------------------------------------------------------------------------
(* generatePRSummary (lines 118-204) *)

MarkerThreshold == 10

Take(s, n) == SubSeq(s, 1, Min(n, Len(s)))

IsAddOrDel(change) == change.type = "add" \/ change.type = "del"

\* chunk.changes.filter(add or del).slice(0, 10).map(sign and trimmed content)
sampledChanges(chunk) ==
    LET kept == Take(SelectSeq(chunk.changes, IsAddOrDel), SampleLimit)
    IN  [i \in DOMAIN kept |->
           <<IF kept[i].type = "add" THEN "+" ELSE "-", kept[i].content>>]

\* file.chunks.flatMap(..)
codeChanges(file) ==
    FlatSeq([c \in DOMAIN file.chunks |-> sampledChanges(file.chunks[c])])

truncationMarker(file) ==
    Len(file.chunks) > 0 /\ Len(file.chunks[1].changes) > MarkerThreshold

changesCount(file) ==
    SumSeq([c \in DOMAIN file.chunks |-> Len(file.chunks[c].changes)])

detailedChange(file) ==
    [path |-> IF file.to # NoPath THEN file.to ELSE file.from,
     changeType |-> IF file.to # NoPath
                    THEN (IF file.from # NoPath THEN "modified" ELSE "added")
                    ELSE "deleted",
     changesCount |-> changesCount(file),
     codeChanges |-> codeChanges(file),
     marker |-> truncationMarker(file)]

summaryPrompt(diff, prDetails) ==
    [kind |-> "summary",
     title |-> prDetails.title,
     description |-> prDetails.description,
     detailedChanges |-> [f \in DOMAIN diff |-> detailedChange(diff[f])]]

SummaryDoc(kind, summary, changes) == [t |-> kind, summary |-> summary, changes |-> changes]
EmptySummaryObject == SummaryDoc("object", None, None)

SummaryReplies ==
    {[status |-> "error", text |-> "blank", value |-> EmptySummaryObject],
     Content("blank", EmptySummaryObject),
     Content("garbage", EmptySummaryObject),
     Content("json", SummaryDoc("null", None, None)),
     Content("json", SummaryDoc("object", None, None)),
     Content("json", SummaryDoc("object", Some("summary"), Some(<<"change 1">>)))}

EmptyText == <<>>

\* lines 170-203: the Markdown block, or "" when the call or the parse threw
\* (reading summaryData.changes of a parsed null throws too)
summaryResult(reply) ==
    IF reply.status = "error" THEN EmptyText
    ELSE LET parsed == JSONparse(reply, EmptySummaryObject)
             summaryData == parsed.value
         IN  IF parsed.threw \/ summaryData.t = "null" THEN EmptyText
             ELSE <<[kind |-> "summary",
                     severity |-> None,
                     label |-> "",
                     text |-> summaryData.summary,
                     changes |-> IF summaryData.changes # None
                                    /\ Len(summaryData.changes[1]) > 0
                                 THEN summaryData.changes[1] ELSE <<>>]>>

\* history: what the summary reply was
SummaryReplyClass(reply) ==
    CASE reply.status = "error" -> "summary_call_failed"
      [] reply.text = "blank" -> "summary_empty"
      [] reply.text = "garbage" -> "summary_unparsable"
      [] reply.value.t = "null" -> "summary_unparsable"
      [] reply.value.summary = None -> "summary_field_missing"
      [] OTHER -> "summary_wellformed"

FailedSummaryReplies == {"summary_call_failed", "summary_empty", "summary_unparsable",
                         "summary_field_missing"}

---------------------------------------------------------------------------
(* analyzeCode, lines 69-100: the target of the summary Comment *)

\* the inner loop without its break: the last 'add' change wins
lastAddIn(chunk) ==
    LET adds == {i \in DOMAIN chunk.changes :
                   chunk.changes[i].type = "add" /\ chunk.changes[i].ln # None}
    IN  IF adds = {} THEN 0 ELSE CHOOSE i \in adds : \A j \in adds : i >= j

\* the first 'add' change of a chunk whose ln is defined (inner loop, 77-85)
firstAddIn(chunk) ==
    LET adds == {i \in DOMAIN chunk.changes :
                   chunk.changes[i].type = "add" /\ chunk.changes[i].ln # None}
    IN  IF adds = {} THEN 0 ELSE CHOOSE i \in adds : \A j \in adds : i <= j


\* loop over file.chunks (76-87), from chunk c on
RECURSIVE targetInChunks(_, _)
targetInChunks(file, c) ==
    IF c > Len(file.chunks) THEN None
    ELSE IF firstAddIn(file.chunks[c]) # 0
         THEN Some([path |-> file.to,
                    line |-> file.chunks[c].changes[firstAddIn(file.chunks[c])].ln[1]])
         ELSE targetInChunks(file, c + 1)

\* loop over parsedDiff (74-90), from file f on
RECURSIVE targetInFiles(_, _)
targetInFiles(diff, f) ==
    IF f > Len(diff) THEN None
    ELSE LET inFile == IF diff[f].to # NoPath THEN targetInChunks(diff[f], 1) ELSE None
         IN  IF inFile # None THEN inFile ELSE targetInFiles(diff, f + 1)

summaryTarget(diff) == targetInFiles(diff, 1)

summaryComments(summary, diff) ==
    IF summary # EmptyText /\ Len(diff) > 0 /\ summaryTarget(diff) # None
    THEN <<[body |-> summary,
            path |-> summaryTarget(diff)[1].path,
            line |-> summaryTarget(diff)[1].line]>>
    ELSE <<>>

---------------------------------------------------------------------------
(* The run: main (lines 361-421) and analyzeCode (lines 59-116).  The code *)
(* is single-threaded: an action is what runs from one await to the next.  *)
(* parsedDiff is the diff of the pull request as parseDiff and the         *)
(* exclusion filter hand it to analyzeCode.                                *)

Events == {"opened", "synchronize", "closed"}

NoFn == [fn |-> "none"]
NoReply == [class |-> "none", fi |-> 0, ci |-> 0]

Init ==
    /\ pc = "start"
    /\ parsedDiff \in Diffs
    /\ comments = <<>>
    /\ origin = <<>>
    /\ prSummary = EmptyText
    /\ fi = 1
    /\ ci = 1
    /\ inflight = <<>>
    /\ calls = <<>>
    /\ lastReply = NoReply
    /\ submitted = <<>>
    /\ fnIn = NoFn
    /\ fnOut = NoFn

FnUnchanged == UNCHANGED <<fnIn, fnOut>>

\* main, 362-388: fetching the PR details or the diff fails (fatal)
MainFetchFails ==
    /\ pc = "start"
    /\ pc' = "failed"
    /\ UNCHANGED <<parsedDiff, comments, origin, prSummary, fi, ci, inflight,
                   calls, lastReply, submitted>>
    /\ FnUnchanged

\* main, 361-412, and analyzeCode up to the await of line 171: an unsupported
\* event or an empty diff returns without action; otherwise the summary
\* prompt is built and the summary call issued
MainStart ==
    /\ pc = "start"
    /\ \E event \in Events, diffIsEmpty \in BOOLEAN :
          IF event \notin {"opened", "synchronize"}
          THEN pc' = "exit_unsupported" /\ inflight' = inflight
          ELSE IF diffIsEmpty
          THEN pc' = "exit_nodiff" /\ inflight' = inflight
          ELSE /\ inflight' = Append(inflight, summaryPrompt(parsedDiff, PRDetails))
               /\ pc' = "summary_wait"
    /\ UNCHANGED <<parsedDiff, comments, origin, prSummary, fi, ci,
                   calls, lastReply, submitted>>
    /\ FnUnchanged

pushFront(list, new) == new \o list

\* comments.push(...new)
push(list, new) == list \o new

neverDeleted(file) == file.to = NoPath

\* line 103: if (file.to === "/dev/null") continue
isDeletedFile(file) == file.to = DevNull

\* lines 102-104: the loops over the files and their chunks, from position
\* <<f, c>> on: the next chunk to review, or the end of the diff
RECURSIVE nextChunk(_, _, _)
nextChunk(diff, f, c) ==
    IF f > Len(diff) THEN [done |-> TRUE, fi |-> f, ci |-> c]
    ELSE IF isDeletedFile(diff[f]) THEN nextChunk(diff, f + 1, 1)
    ELSE IF c > Len(diff[f].chunks) THEN nextChunk(diff, f + 1, 1)
    ELSE [done |-> FALSE, fi |-> f, ci |-> c]

alwaysSubmit(list) == TRUE

\* line 413: if (comments.length > 0)
shouldSubmit(list) == Len(list) > 0

(* analyzeCode goes on from position <<f, c>> with the Comments list and   *)
(* no call outstanding: the prompt of the next chunk is built and its call *)
(* issued (105-106), or the loops are over, analyzeCode returns (115) and  *)
(* main submits the Comments when there are any (413-419).                 *)
Continue(list, f, c) ==
    LET nx == nextChunk(parsedDiff, f, c)
    IN  /\ fi' = nx.fi
        /\ ci' = nx.ci
        /\ IF ~nx.done
           THEN /\ inflight' = <<createPrompt(parsedDiff[nx.fi],
                                              parsedDiff[nx.fi].chunks[nx.ci], PRDetails)>>
                /\ calls' = Append(calls, [fi |-> nx.fi, ci |-> nx.ci])
                /\ submitted' = submitted
                /\ pc' = "review_wait"
           ELSE /\ inflight' = <<>>
                /\ calls' = calls
                /\ IF shouldSubmit(list)
                   THEN submitted' = Append(submitted, list) /\ pc' = "submit_wait"
                   ELSE submitted' = submitted /\ pc' = "done"

\* generatePRSummary, 170-203, and analyzeCode, 66-106: the summary reply
\* arrives; the summary Comment is attached and the loops start
SummaryReply ==
    /\ pc = "summary_wait"
    /\ \E reply \in SummaryReplies :
          LET summary == summaryResult(reply)
              new == summaryComments(summary, parsedDiff)
          IN  /\ prSummary' = summary
              /\ lastReply' = [class |-> SummaryReplyClass(reply), fi |-> 0, ci |-> 0]
              /\ comments' = push(comments, new)
              /\ origin' = push(origin, [i \in DOMAIN new |->
                                           [kind |-> "summary", fi |-> 0, ci |-> 0, k |-> 0]])
              /\ Continue(push(comments, new), 1, 1)
    /\ UNCHANGED parsedDiff
    /\ FnUnchanged

\* the findings a reply to the prompt may hold: one for each line the prompt
\* shows
FindingsFor(prompt) ==
    {Finding(Some(DecStr(n)), Some("comment"), Some(3)) : n \in PromptLineNumbers(prompt)}

\* the replies to a review request: a failed call, no content, text that is
\* no JSON, and JSON: null, "reviews" null or an object, an array of findings,
\* an array holding null, an array holding an object without fields
ReviewReplies(prompt) ==
    {CallFailed,
     Content("blank", EmptyObject),
     Content("garbage", EmptyObject),
     Content("json", ReviewDoc("null", Reviews("absent", <<>>))),
     Content("json", ReviewDoc("object", Reviews("null", <<>>))),
     Content("json", ReviewDoc("object", Reviews("object", <<>>))),
     Content("json", ReviewDoc("object", Reviews("array", <<NullFinding>>))),
     Content("json", ReviewDoc("object", Reviews("array", <<Finding(None, None, None)>>)))}
    \cup {Content("json", ReviewDoc("object", Reviews("array", items))) :
            items \in SeqsUpTo(FindingsFor(prompt), MaxFindings)}

MalformedFinding(f) == f.t = "null" \/ f.lineNumber = None \/ f.reviewComment = None

\* history: what the review reply was
ReviewReplyClass(reply) ==
    CASE reply.status = "error" -> "call_failed"
      [] reply.text = "garbage" -> "unparsable"
      [] reply.text = "blank" -> "findings_absent"
      [] reply.value.t = "null" -> "findings_absent"
      [] reply.value.reviews.t \in {"absent", "null"} -> "findings_absent"
      [] reply.value.reviews.t # "array" -> "findings_not_a_sequence"
      [] \E k \in DOMAIN reply.value.reviews.items :
            reply.value.reviews.items[k].t = "null" -> "finding_not_an_object"
      [] reply.value.reviews.items # <<>>
           /\ \A k \in DOMAIN reply.value.reviews.items :
                 MalformedFinding(reply.value.reviews.items[k]) -> "finding_fields_missing"
      [] OTHER -> "wellformed"

DegradedReplies == {"call_failed", "unparsable", "findings_absent",
                    "findings_not_a_sequence", "finding_not_an_object",
                    "finding_fields_missing"}

\* lines 106-115: the reply for chunk <<fi, ci>> arrives; its findings are
\* validated and the Comments appended and analyzeCode goes on with the next
\* chunk, or createComment throws and analyzeCode with it
ReviewReply ==
    /\ pc = "review_wait"
    /\ \E reply \in ReviewReplies(inflight[1]) :
          LET file == parsedDiff[fi]
              chunk == file.chunks[ci]
              aiResponse == getAIResponse(reply)
          IN  /\ lastReply' = [class |-> ReviewReplyClass(reply), fi |-> fi, ci |-> ci]
              /\ IF TruthyReviews(aiResponse) /\ createCommentThrows(file, aiResponse)
                 THEN /\ pc' = "raised"
                      /\ inflight' = <<>>
                      /\ UNCHANGED <<comments, origin, fi, ci, calls, submitted>>
                 ELSE LET new == IF TruthyReviews(aiResponse)
                                 THEN createComment(file, chunk, aiResponse)
                                 ELSE <<>>
                          kept == IF TruthyReviews(aiResponse)
                                  THEN keptFindings(file, chunk, aiResponse)
                                  ELSE <<>>
                      IN  /\ comments' = push(comments, new)
                          /\ origin' = push(origin,
                                 [i \in DOMAIN kept |->
                                    [kind |-> "finding", fi |-> fi, ci |-> ci, k |-> kept[i]]])
                          /\ Continue(push(comments, new), fi, ci + 1)
    /\ UNCHANGED <<parsedDiff, prSummary>>
    /\ FnUnchanged

\* lines 423-426: main().catch: the run fails
MainCatch ==
    /\ pc = "raised"
    /\ pc' = "failed"
    /\ UNCHANGED <<parsedDiff, comments, origin, prSummary, fi, ci, inflight,
                   calls, lastReply, submitted>>
    /\ FnUnchanged

\* lines 352-358: createReview answers; a failure is fatal
SubmitReply ==
    /\ pc = "submit_wait"
    /\ \E ok \in BOOLEAN : pc' = IF ok THEN "done" ELSE "failed"
    /\ UNCHANGED <<parsedDiff, comments, origin, prSummary, fi, ci, inflight,
                   calls, lastReply, submitted>>
    /\ FnUnchanged

Next ==
    \/ MainFetchFails
    \/ MainStart
    \/ SummaryReply
    \/ ReviewReply
    \/ MainCatch
    \/ SubmitReply

Spec == Init /\ [][Next]_vars

---------------------------------------------------------------------------
(* createComment applied to a file, a chunk and a sequence of findings.    *)
(* The texts of lineNumber are the numbers 0 .. MaxChanges + 1 as the      *)
(* model may write them (padded, with a fraction, with a letter), the      *)
(* empty text and a word.                                                  *)

LineTexts ==
    UNION {{DecStr(n), <<" ">> \o DecStr(n) \o <<" ">>, DecStr(n) \o <<".", "0">>,
            DecStr(n) \o <<".", "5">>, DecStr(n) \o <<"x">>} : n \in 0..(MaxChanges + 1)}
    \cup {<<>>, <<"x">>}

FindingObjects ==
    {Finding(Some(t), Some("comment"), Some(2)) : t \in LineTexts}
    \cup {Finding(None, Some("comment"), Some(2)), Finding(Some(DecStr(1)), None, None)}

InitCreateComment ==
    /\ pc = "fn_call"
    /\ \E kind \in FileKinds, items \in SeqsUpTo(FindingObjects, MaxFindings) :
        \E shape \in ChunkShapes(kind, MaxChanges) :
          fnIn = [fn |-> "createComment",
                  file |-> ParseFile(kind, FileNames[1], <<shape>>),
                  aiResponses |-> Reviews("array", items)]
    /\ fnOut = NoFn
    /\ parsedDiff = <<>>
    /\ comments = <<>>
    /\ origin = <<>>
    /\ prSummary = EmptyText
    /\ fi = 1
    /\ ci = 1
    /\ inflight = <<>>
    /\ calls = <<>>
    /\ lastReply = NoReply
    /\ submitted = <<>>

RunUnchanged ==
    UNCHANGED <<parsedDiff, comments, origin, prSummary, fi, ci, inflight,
                calls, lastReply, submitted>>

ApplyCreateComment ==
    /\ pc = "fn_call"
    /\ fnIn.fn = "createComment"
    /\ fnOut' = [fn |-> "createComment",
                 threw |-> createCommentThrows(fnIn.file, fnIn.aiResponses),
                 value |-> createComment(fnIn.file, fnIn.file.chunks[1], fnIn.aiResponses)]
    /\ pc' = "fn_done"
    /\ UNCHANGED fnIn
    /\ RunUnchanged

NextCreateComment == ApplyCreateComment

SpecCreateComment == InitCreateComment /\ [][NextCreateComment]_vars

---------------------------------------------------------------------------
(* The summary prompt of generatePRSummary for one file.  A chunk is a run *)
(* of context lines, a run of deleted lines and a run of added lines; the  *)
(* runs are short, half the sample limit, or longer than it.               *)

RunLens == {0, 1, SampleLimit \div 2 + 1, SampleLimit + 1}

Run(type, n) == [i \in 1..n |-> type]

HunkShapes ==
    {Run("normal", a) \o Run("del", b) \o Run("add", c) : a, b, c \in RunLens} \ {<<>>}

InitSummary ==
    /\ pc = "fn_call"
    /\ \E shapes \in SeqsUpTo(HunkShapes, MaxSummaryChunks) :
          fnIn = [fn |-> "summaryPrompt",
                  diff |-> <<ParseFile("modified", FileNames[1], shapes)>>]
    /\ fnOut = NoFn
    /\ parsedDiff = <<>>
    /\ comments = <<>>
    /\ origin = <<>>
    /\ prSummary = EmptyText
    /\ fi = 1
    /\ ci = 1
    /\ inflight = <<>>
    /\ calls = <<>>
    /\ lastReply = NoReply
    /\ submitted = <<>>

ApplySummaryPrompt ==
    /\ pc = "fn_call"
    /\ fnIn.fn = "summaryPrompt"
    /\ fnOut' = [fn |-> "summaryPrompt", value |-> summaryPrompt(fnIn.diff, PRDetails)]
    /\ pc' = "fn_done"
    /\ UNCHANGED fnIn
    /\ RunUnchanged

NextSummary == ApplySummaryPrompt

SpecSummary == InitSummary /\ [][NextSummary]_vars

---------------------------------------------------------------------------
(* Properties *)

\* the new-file numbers of the Added and the Context changes of a chunk
ValidLineSet(chunk) ==
    {chunk.changes[i].ln[1] : i \in {j \in DOMAIN chunk.changes :
                                        chunk.changes[j].type = "add"}}
    \cup {chunk.changes[i].ln2[1] : i \in {j \in DOMAIN chunk.changes :
                                             chunk.changes[j].type = "normal"}}

\* every number a change of the chunk carries, and one more
LineUniverse(chunk) ==
    0..(1 + SumSeq([i \in DOMAIN chunk.changes |-> 1])
          + SumSeq([i \in DOMAIN chunk.changes |->
                      IF chunk.changes[i].ln # None THEN chunk.changes[i].ln[1]
                      ELSE chunk.changes[i].ln2[1]]))

\* the line numbers createComment accepts for the chunk
AcceptedLines(chunk) == {n \in LineUniverse(chunk) : lineExists(chunk, n)}

IsSummaryComment(c) == c.body # EmptyText /\ c.body[1].kind = "summary"

\* the Added changes of a diff, as <<file, chunk, change>> positions
AddedPositions(diff) ==
    {<<f, c, i>> \in (DOMAIN diff) \X (1..MaxChunks) \X (1..MaxChanges) :
        /\ c \in DOMAIN diff[f].chunks
        /\ i \in DOMAIN diff[f].chunks[c].changes
        /\ diff[f].chunks[c].changes[i].type = "add"}

LexLess(a, b) ==
    \/ a[1] < b[1]
    \/ a[1] = b[1] /\ a[2] < b[2]
    \/ a[1] = b[1] /\ a[2] = b[2] /\ a[3] < b[3]

\* the chunks of the files that are not deleted files
ReviewableChunks(diff) ==
    {<<f, c>> \in (DOMAIN diff) \X (1..MaxChunks) :
        diff[f].to # DevNull /\ c \in DOMAIN diff[f].chunks}

AnalysisStarted == pc \in {"review_wait", "raised", "submit_wait", "done"}

(* C1: createComment returns, in the order of the findings, one Comment    *)
(* for each finding whose converted lineNumber is the new-file number of   *)
(* an Added or a Context change of the chunk, with that line and the       *)
(* file's new path, and nothing for any other finding.                     *)
C1_CreateCommentKeepsValidLines ==
    pc = "fn_done" =>
        LET chunk == fnIn.file.chunks[1]
            items == fnIn.aiResponses.items
            nums == [k \in DOMAIN items |-> Number(items[k].lineNumber)]
            valid == SelectSeq(nums, LAMBDA n : n \in ValidLineSet(chunk))
        IN  /\ ~fnOut.threw
            /\ Len(fnOut.value) = Len(valid)
            /\ \A j \in DOMAIN fnOut.value :
                  /\ fnOut.value[j].line = valid[j]
                  /\ fnOut.value[j].path = fnIn.file.to

\* a finding for a line of the chunk is kept, one for another line dropped,
\* and the chunk holds a Removed change
C1_Witness ==
    /\ pc = "fn_done"
    /\ Len(fnIn.aiResponses.items) = 2
    /\ Len(fnOut.value) = 1
    /\ Number(fnIn.aiResponses.items[2].lineNumber) # NoInt
    /\ \E i \in DOMAIN fnIn.file.chunks[1].changes :
          fnIn.file.chunks[1].changes[i].type = "del"

(* C2: a failed call, a reply that does not parse, or a reply whose        *)
(* findings are absent or malformed gives no Comment for its chunk and     *)
(* never makes analyzeCode raise.                                          *)
C2_PartialFailureIsolation ==
    /\ pc # "raised"
    /\ lastReply.class \in DegradedReplies
       => \A j \in DOMAIN origin :
             ~(origin[j].kind = "finding"
               /\ origin[j].fi = lastReply.fi
               /\ origin[j].ci = lastReply.ci)

(* C3: the line numbers the review prompt shows for a chunk are the line   *)
(* numbers createComment accepts for it: the new-file numbers of its Added *)
(* and Context changes.                                                    *)
C3_PromptLinesAreAcceptedLines ==
    pc = "review_wait" =>
        /\ PromptLineNumbers(inflight[1]) = AcceptedLines(parsedDiff[fi].chunks[ci])
        /\ PromptLineNumbers(inflight[1]) = ValidLineSet(parsedDiff[fi].chunks[ci])

(* C4: no review request is issued for a chunk of a deleted file, no       *)
(* Comment is attached to a deleted file, and a diff of deleted files only *)
(* gives no Comment.                                                       *)
C4_DeletedFilesNotReviewed ==
    /\ \A i \in DOMAIN calls : parsedDiff[calls[i].fi].to # DevNull
    /\ \A j \in DOMAIN comments :
          /\ comments[j].path # DevNull
          /\ origin[j].kind = "finding" => parsedDiff[origin[j].fi].to # DevNull
    /\ (\A f \in DOMAIN parsedDiff : parsedDiff[f].to = DevNull) => comments = <<>>

\* a run over a deleted file with chunks and a reviewed file ends with Comments
C4_Witness ==
    /\ pc = "done"
    /\ \E f \in DOMAIN parsedDiff :
          parsedDiff[f].to = DevNull /\ parsedDiff[f].chunks # <<>>
    /\ calls # <<>>
    /\ comments # <<>>

(* C5: createReviewComment is invoked at most once, with the aggregate,    *)
(* only when the aggregate is not empty and no model call is outstanding   *)
(* and the loop over the files is over; never after an unsupported event   *)
(* or an empty diff.                                                       *)
C5_SubmitOnceWhenNonEmpty ==
    /\ Len(submitted) <= 1
    /\ submitted # <<>> =>
          /\ submitted[1] = comments
          /\ comments # <<>>
          /\ inflight = <<>>
          /\ fi > Len(parsedDiff)
          /\ pc \in {"submit_wait", "done", "failed"}
    /\ pc \in {"exit_unsupported", "exit_nodiff"} => submitted = <<>> /\ calls = <<>>
    /\ (pc = "done" /\ comments = <<>>) => submitted = <<>>

\* a run that reviewed two chunks has submitted its Comments
C5_Witness ==
    /\ pc = "done"
    /\ Len(submitted) = 1
    /\ Len(calls) >= 2

(* C6: with a non-empty summary, the aggregate holds exactly one summary   *)
(* Comment, on the first Added change in file, chunk and change order;     *)
(* without any Added change (or without a summary) it holds none.          *)
C6_SummaryOnFirstAddedLine ==
    AnalysisStarted =>
        LET added == AddedPositions(parsedDiff)
            at == {j \in DOMAIN comments : IsSummaryComment(comments[j])}
        IN  IF prSummary # EmptyText /\ added # {}
            THEN LET first == CHOOSE p \in added : \A q \in added : p = q \/ LexLess(p, q)
                     change == parsedDiff[first[1]].chunks[first[2]].changes[first[3]]
                 IN  /\ Cardinality(at) = 1
                     /\ \A j \in at :
                           /\ comments[j].body = prSummary
                           /\ comments[j].path = parsedDiff[first[1]].to
                           /\ comments[j].line = change.ln[1]
            ELSE at = {}

\* the summary is attached to an Added change that is not the first change
\* of the diff, and another Added change follows it in the same chunk
C6_Witness ==
    /\ pc = "done"
    /\ prSummary # EmptyText
    /\ \E p \in AddedPositions(parsedDiff) :
          /\ \A q \in AddedPositions(parsedDiff) : p = q \/ LexLess(p, q)
          /\ p[1] > 1
          /\ <<p[1], p[2], p[3] + 1>> \in AddedPositions(parsedDiff)
    /\ \E j \in DOMAIN comments : IsSummaryComment(comments[j])

(* C7: for every file the summary prompt holds at most 10 sampled          *)
(* added/removed lines, and the truncation marker exactly when the file    *)
(* has more than 10 added/removed lines.                                   *)
C7_SummarySampleCapped ==
    pc = "fn_done" =>
        \A f \in DOMAIN fnIn.diff :
            LET addDel == SumSeq([c \in DOMAIN fnIn.diff[f].chunks |->
                                    Len(SelectSeq(fnIn.diff[f].chunks[c].changes, IsAddOrDel))])
            IN  /\ Len(fnOut.value.detailedChanges[f].codeChanges) <= SampleLimit
                /\ fnOut.value.detailedChanges[f].marker <=> (addDel > SampleLimit)

(* C8: when the summary call fails, or its reply is empty, does not parse  *)
(* or lacks the summary field, generatePRSummary returns the empty string  *)
(* and analyzeCode adds no summary Comment.                                *)
C8_SummaryFailureGivesNoSummary ==
    lastReply.class \in FailedSummaryReplies
    => /\ prSummary = EmptyText
       /\ comments = <<>>

(* C9: the review requests are issued one at a time, in file-then-chunk    *)
(* order, none while another is outstanding, and when analyzeCode is over  *)
(* (it returned or raised) every chunk of every file that is not a deleted *)
(* file has had exactly one.                                               *)
C9_OneRequestPerChunk ==
    /\ Len(inflight) <= 1
    /\ pc = "review_wait" =>
          /\ inflight # <<>>
          /\ calls # <<>>
          /\ <<calls[Len(calls)].fi, calls[Len(calls)].ci>> = <<fi, ci>>
          /\ inflight[1] = createPrompt(parsedDiff[fi], parsedDiff[fi].chunks[ci], PRDetails)
    /\ \A i, j \in DOMAIN calls :
          i < j => LexLess(<<calls[i].fi, calls[i].ci, 0>>, <<calls[j].fi, calls[j].ci, 0>>)
    /\ pc \in {"raised", "submit_wait", "done"} =>
          {<<calls[i].fi, calls[i].ci>> : i \in DOMAIN calls} = ReviewableChunks(parsedDiff)

(* C10: the Comments made from findings stand in the aggregate in file,    *)
(* then chunk, then finding order, each on its own file.                   *)
C10_CommentsInTraversalOrder ==
    /\ Len(origin) = Len(comments)
    /\ \A i, j \in DOMAIN origin :
          (i < j /\ origin[i].kind = "finding" /\ origin[j].kind = "finding")
          => LexLess(<<origin[i].fi, origin[i].ci, origin[i].k>>,
                     <<origin[j].fi, origin[j].ci, origin[j].k>>)
    /\ \A j \in DOMAIN origin :
          origin[j].kind = "finding" => comments[j].path = parsedDiff[origin[j].fi].to

\* the returned aggregate holds two Comments of one chunk and a Comment of
\* a later file
C10_Witness ==
    /\ pc = "done"
    /\ \E i, j, l \in DOMAIN origin :
          /\ i < j /\ j < l
          /\ origin[i].kind = "finding"
          /\ origin[i].fi = origin[j].fi /\ origin[i].ci = origin[j].ci
          /\ origin[j].fi < origin[l].fi

====
